---- MODULE Spec2Model ----
(***************************************************************************)
(* Model of orchestrator-app (src-tauri/src): the local process registry   *)
(* of process.rs with its callers in lib.rs, and the remote readiness      *)
(* protocol and status query of commands.rs over ssh.rs.                   *)
(***************************************************************************)
EXTENDS Integers, Sequences, FiniteSets, TLC

\* ------------------------------------------------------------------ bounds
MaxSpawn == 2
NumThreads == 2

MaxLines == 2

\* commands.rs:41 `let max_wait = 120`, :46 `sleep(Duration::from_secs(2))`, :47 `waited += 2`
max_wait == 120
sleep_secs == 2
waited_step == 2

Apps == {"vctt", "tool"}
Pids == 1..MaxSpawn
Threads == 1..NumThreads
None == 0

VARIABLES
    PROCESSES,      \* process.rs:7  app id -> tracked Child (a pid), None = no entry
    proc,           \* OS state of each child: "unborn", "alive", "killed", "exited"
    procApp,        \* the app id each child was spawned for
    lock,           \* the thread that holds the PROCESSES mutex across a blocking wait(), or None
    pc,             \* per thread: where it is
    arg,            \* per thread: the app_id / config.id argument of the call it is in
    cur,            \* per thread: the Child taken out of the registry (terminate, cleanup_all)
    drained,        \* per thread: the Children still to be visited by cleanup_all's drain()
    before,         \* per thread: the registry as it was when terminate / cleanup_all took the lock
    ret,            \* per thread: the result its process.rs call returned in the step just taken
    appExited,      \* std::process::exit(0) has run
    spawnedAtQuit   \* number of children spawned when the shutdown handler started, -1 before

procVars == <<PROCESSES, proc, procApp, lock, pc, arg, cur, drained, before, ret,
              appExited, spawnedAtQuit>>

VARIABLES
    cmd,            \* the tauri command being served: launch_portal, get_status, test_connection
    ppc,            \* the position inside it
    server,         \* the ServerConfig it works on (NoServer before the lookup)
    session,        \* its SshConnection: "none", "failed", "open", "closed" (dropped)
    containers,     \* launch_portal / get_status: the Vec<ContainerStatus> of the inspection
    waited,         \* launch_portal: `waited`
    ready,          \* launch_portal: `ready`
    slept,          \* seconds of tokio sleep accumulated by this invocation
    starts,         \* start commands issued by this invocation
    probes,         \* health probes issued by this invocation
    failed,         \* health probes that did not answer Ok(true)
    cmds,           \* the kinds of remote command executed by this invocation
    inspected,      \* outcome of its check_containers command: "none", "Ok", "Err"
    output,         \* check_containers: the lines of `output` (ssh.rs 89)
    started,        \* outcome of its start_portal call: "none", "Ok", "Err"
    health,         \* outcome of its latest check_portal_health call, "none" before
    result          \* the value returned to the caller

portalVars == <<cmd, ppc, server, session, containers, waited, ready, slept, starts, probes,
                failed, cmds, inspected, output, started, health, result>>

vars == <<procVars, portalVars>>

NoEntry == [a \in Apps |-> None]

\* A child that has been spawned and has not exited (a delivered SIGKILL that has
\* not yet taken effect leaves it alive).
IsAlive(p) == proc[p] \in {"alive", "killed"}

Unborn == {p \in Pids : proc[p] = "unborn"}

spawned == Cardinality(Pids \ Unborn)

\* Child::try_wait: never blocks; a live child answers Ok(None); an exited one
\* answers Ok(Some(status)), or Err when the status cannot be collected.
TryWait(p) == IF IsAlive(p) THEN {"Running"} ELSE {"Exited", "Err"}

\* Command::spawn: Ok(child) needs a free process slot; Err is always possible.
SpawnOutcomes == IF Unborn = {} THEN {"Err"} ELSE {"Ok", "Err"}

\* Child::kill: Ok (SIGKILL delivered) or Err (e.g. EPERM).
KillOutcomes == {"Ok", "Err"}

\* Child::wait, once the child has exited: Ok(status) or Err.
WaitOutcomes == {"Ok", "Err"}

Killed(p) == [proc EXCEPT ![p] = IF @ = "alive" THEN "killed" ELSE @]

Removed_keeps(reg, a) == reg

\* HashMap::remove (process.rs 20 and 69): the registry without the entry of a.
Removed(reg, a) == [reg EXCEPT ![a] = None]

LaunchCheck_reapsRunning(tw) ==
    CASE tw = "Exited"  -> "reap"
      [] tw = "Running" -> "reap"
      [] tw = "Err"     -> "StatusCheckFailed"

\* launch_app, lines 14-31: what the liveness check on an existing entry decides.
LaunchCheck(tw) ==
    CASE tw = "Exited"  -> "reap"
      [] tw = "Running" -> "AlreadyRunning"
      [] tw = "Err"     -> "StatusCheckFailed"

\* is_running, lines 54-62.
IsRunningResult(entry, tw) ==
    IF entry # None
    THEN CASE tw = "Exited"  -> FALSE
           [] tw = "Running" -> TRUE
           [] tw = "Err"     -> FALSE
    ELSE FALSE

\* No call returned in this step.
NoRet == [t \in Threads |-> "none"]

ProcInit ==
    /\ PROCESSES = NoEntry
    /\ proc = [p \in Pids |-> "unborn"]
    /\ procApp = [p \in Pids |-> "none"]
    /\ lock = None
    /\ pc = [t \in Threads |-> "idle"]
    /\ arg = [t \in Threads |-> "none"]
    /\ cur = [t \in Threads |-> None]
    /\ drained = [t \in Threads |-> {}]
    /\ before = [t \in Threads |-> NoEntry]
    /\ ret = NoRet
    /\ appExited = FALSE
    /\ spawnedAtQuit = -1

\* The threads are interchangeable: a new call runs on the first free one.
FirstFree(t) == pc[t] = "idle" /\ \A u \in Threads : u < t => pc[u] # "idle"

\* Thread t is at PROCESSES.lock() of op with argument a and the mutex is free:
\* either it calls op now, or it was blocked in that call.
Enters(t, op, a) ==
    /\ ~appExited
    /\ lock = None
    /\ \/ FirstFree(t)
       \/ pc[t] = op /\ arg[t] = a

\* A caller (commands.rs launch_local_app / is_app_running / terminate_app, or the
\* shutdown handler) calls a process.rs function while another thread holds the
\* mutex: PROCESSES.lock() blocks.
Blocks(t) ==
    /\ ~appExited
    /\ lock # None
    /\ FirstFree(t)
    /\ \E op \in {"launch_app", "is_running", "terminate"} : \E a \in Apps :
         /\ pc' = [pc EXCEPT ![t] = op]
         /\ arg' = [arg EXCEPT ![t] = a]
    /\ ret' = NoRet
    /\ UNCHANGED <<PROCESSES, proc, procApp, lock, cur, drained, before, appExited,
                   spawnedAtQuit>>
    /\ UNCHANGED portalVars

Return(t, r) ==
    /\ pc' = [pc EXCEPT ![t] = "idle"]
    /\ ret' = [NoRet EXCEPT ![t] = r]
    /\ arg' = [arg EXCEPT ![t] = "none"]

\* launch_app, lines 33-45: spawn and insert, from registry reg.
LaunchSpawn(t, a, reg) ==
    \E s \in SpawnOutcomes :
        IF s = "Ok"
        THEN \E p \in Unborn :
                /\ p = spawned + 1
                /\ proc' = [proc EXCEPT ![p] = "alive"]
                /\ procApp' = [procApp EXCEPT ![p] = a]
                /\ PROCESSES' = [reg EXCEPT ![a] = p]
                /\ Return(t, "Ok")
        ELSE /\ PROCESSES' = reg
             /\ Return(t, "SpawnError")
             /\ UNCHANGED <<proc, procApp>>

\* launch_app, lines 9-46, run under the mutex from lock() to return.
launch_app_id(t, a) ==
    /\ Enters(t, "launch_app", a)
    /\ IF PROCESSES[a] # None
       THEN \E tw \in TryWait(PROCESSES[a]) :
              IF LaunchCheck(tw) = "reap"
              THEN LaunchSpawn(t, a, Removed(PROCESSES, a))
              ELSE /\ Return(t, LaunchCheck(tw))
                   /\ UNCHANGED <<PROCESSES, proc, procApp>>
       ELSE LaunchSpawn(t, a, PROCESSES)
    /\ UNCHANGED <<lock, cur, drained, before, appExited, spawnedAtQuit>>
    /\ UNCHANGED portalVars

launch_app(t) == \E a \in Apps : launch_app_id(t, a)

\* What is_running's lookup of a observes: "Absent" without an entry (line 60),
\* else the answer of try_wait on the tracked Child (line 55).
Observations(a) == IF PROCESSES[a] # None THEN TryWait(PROCESSES[a]) ELSE {"Absent"}

\* is_running, lines 48-63, for app id a when the lookup observes tw: the map is
\* only read (`processes` is not `mut`).
is_running_id(t, a, tw) ==
    /\ Enters(t, "is_running", a)
    /\ tw \in Observations(a)
    /\ Return(t, IF IsRunningResult(PROCESSES[a], tw) THEN "true" ELSE "false")
    /\ UNCHANGED <<PROCESSES, proc, procApp, lock, cur, drained, before, appExited,
                   spawnedAtQuit>>
    /\ UNCHANGED portalVars

is_running(t) ==
    \E a \in Apps : \E tw \in {"Absent", "Running", "Exited", "Err"} : is_running_id(t, a, tw)

HeldAcrossWait_released(t) == None

\* terminate, lines 66-76: the MutexGuard `processes` lives to the end of the
\* function, so the thread keeps the mutex while it sits in process.wait().
HeldAcrossWait(t) == t

terminate_id_unknown_fails(t, a) ==
    /\ Enters(t, "terminate", a)
    /\ IF PROCESSES[a] = None
       THEN /\ Return(t, "TerminationError")
            /\ UNCHANGED <<PROCESSES, proc, lock, cur, before>>
       ELSE /\ PROCESSES' = Removed(PROCESSES, a)
            /\ \E k \in KillOutcomes :
                 IF k = "Err"
                 THEN /\ Return(t, "TerminationError")
                      /\ UNCHANGED <<proc, lock, cur, before>>
                 ELSE /\ proc' = Killed(PROCESSES[a])
                      /\ cur' = [cur EXCEPT ![t] = PROCESSES[a]]
                      /\ before' = [before EXCEPT ![t] = PROCESSES]
                      /\ lock' = HeldAcrossWait(t)
                      /\ pc' = [pc EXCEPT ![t] = "terminate_wait"]
                      /\ arg' = [arg EXCEPT ![t] = a]
                      /\ ret' = NoRet
    /\ UNCHANGED <<procApp, drained, appExited, spawnedAtQuit>>
    /\ UNCHANGED portalVars

\* terminate, lines 65-71 and 75: lock, remove, kill; an unknown id returns Ok,
\* a failed kill returns the error, a delivered kill goes on to wait().
terminate_id(t, a) ==
    /\ Enters(t, "terminate", a)
    /\ IF PROCESSES[a] = None
       THEN /\ Return(t, "Ok")
            /\ UNCHANGED <<PROCESSES, proc, lock, cur, before>>
       ELSE /\ PROCESSES' = Removed(PROCESSES, a)
            /\ \E k \in KillOutcomes :
                 IF k = "Err"
                 THEN /\ Return(t, "TerminationError")
                      /\ UNCHANGED <<proc, lock, cur, before>>
                 ELSE /\ proc' = Killed(PROCESSES[a])
                      /\ cur' = [cur EXCEPT ![t] = PROCESSES[a]]
                      /\ before' = [before EXCEPT ![t] = PROCESSES]
                      /\ lock' = HeldAcrossWait(t)
                      /\ pc' = [pc EXCEPT ![t] = "terminate_wait"]
                      /\ arg' = [arg EXCEPT ![t] = a]
                      /\ ret' = NoRet
    /\ UNCHANGED <<procApp, drained, appExited, spawnedAtQuit>>
    /\ UNCHANGED portalVars

terminate(t) == \E a \in Apps : terminate_id(t, a)

\* terminate, lines 72-76: wait() blocks until the child has exited; the mutex
\* guard is dropped on return.
terminate_wait(t) ==
    /\ ~appExited
    /\ pc[t] = "terminate_wait"
    /\ ~IsAlive(cur[t])
    /\ \E w \in WaitOutcomes : Return(t, IF w = "Ok" THEN "Ok" ELSE "WaitError")
    /\ lock' = None
    /\ cur' = [cur EXCEPT ![t] = None]
    /\ before' = [before EXCEPT ![t] = NoEntry]
    /\ UNCHANGED <<PROCESSES, proc, procApp, drained, appExited, spawnedAtQuit>>
    /\ UNCHANGED portalVars

\* lib.rs 117-120 (tray "quit") and 137-146 (close-requested): the handler calls
\* cleanup_all and then exits; shutdown is requested once.
Quit(t) ==
    /\ ~appExited
    /\ spawnedAtQuit = -1
    /\ FirstFree(t)
    /\ pc' = [pc EXCEPT ![t] = "cleanup_all"]
    /\ arg' = [arg EXCEPT ![t] = "none"]
    /\ ret' = NoRet
    /\ spawnedAtQuit' = spawned
    /\ UNCHANGED <<PROCESSES, proc, procApp, lock, cur, drained, before, appExited>>
    /\ UNCHANGED portalVars

Drain_keepsExited(reg) ==
    [a \in Apps |-> IF reg[a] # None /\ ~IsAlive(reg[a]) THEN reg[a] ELSE None]

\* HashMap::drain (process.rs 84): the map that is left, whatever the loop body does.
Drain(reg) == NoEntry

\* cleanup_all, lines 78-84: lock and drain(): the registry is emptied at once.
cleanup_all(t) ==
    /\ ~appExited
    /\ pc[t] = "cleanup_all"
    /\ lock = None
    /\ PROCESSES' = Drain(PROCESSES)
    /\ before' = [before EXCEPT ![t] = PROCESSES]
    /\ LET ds == {PROCESSES[a] : a \in Apps} \ {None} IN
         /\ drained' = [drained EXCEPT ![t] = ds]
         /\ IF ds = {}
            THEN /\ pc' = [pc EXCEPT ![t] = "exit"]
                 /\ UNCHANGED lock
            ELSE /\ pc' = [pc EXCEPT ![t] = "cleanup_kill"]
                 /\ lock' = t
    /\ UNCHANGED <<proc, procApp, arg, cur, appExited, spawnedAtQuit>>
    /\ ret' = NoRet
    /\ UNCHANGED portalVars

\* cleanup_all, line 85: the next drained Child, in the map's order; kill's result
\* is discarded.
cleanup_kill(t) ==
    /\ ~appExited
    /\ pc[t] = "cleanup_kill"
    /\ \E p \in drained[t] :
         /\ cur' = [cur EXCEPT ![t] = p]
         /\ \E k \in KillOutcomes : proc' = IF k = "Ok" THEN Killed(p) ELSE proc
    /\ pc' = [pc EXCEPT ![t] = "cleanup_wait"]
    /\ UNCHANGED <<PROCESSES, procApp, lock, arg, drained, before, appExited,
                   spawnedAtQuit>>
    /\ ret' = NoRet
    /\ UNCHANGED portalVars

\* cleanup_all, lines 86-88: wait() blocks until the child has exited; its result
\* is discarded; after the last Child the guard is dropped.
cleanup_wait(t) ==
    /\ ~appExited
    /\ pc[t] = "cleanup_wait"
    /\ ~IsAlive(cur[t])
    /\ drained' = [drained EXCEPT ![t] = @ \ {cur[t]}]
    /\ cur' = [cur EXCEPT ![t] = None]
    /\ IF drained[t] = {cur[t]}
       THEN /\ pc' = [pc EXCEPT ![t] = "exit"]
            /\ lock' = None
       ELSE /\ pc' = [pc EXCEPT ![t] = "cleanup_kill"]
            /\ UNCHANGED lock
    /\ UNCHANGED <<PROCESSES, proc, procApp, arg, before, appExited, spawnedAtQuit>>
    /\ ret' = NoRet
    /\ UNCHANGED portalVars

\* lib.rs 119 / 143: std::process::exit(0) ends every thread of the application.
Exit(t) ==
    /\ ~appExited
    /\ pc[t] = "exit"
    /\ appExited' = TRUE
    /\ UNCHANGED <<PROCESSES, proc, procApp, lock, pc, arg, cur, drained, before,
                   spawnedAtQuit>>
    /\ ret' = NoRet
    /\ UNCHANGED portalVars

\* A child process ends, by itself or by the SIGKILL delivered to it.
ChildExits(p) ==
    /\ IsAlive(p)
    /\ proc' = [proc EXCEPT ![p] = "exited"]
    /\ UNCHANGED <<PROCESSES, procApp, lock, pc, arg, cur, drained, before,
                   appExited, spawnedAtQuit>>
    /\ ret' = NoRet
    /\ UNCHANGED portalVars

\* ------------------------------------------------------------------ remote side

\* config.rs ServerConfig, the fields the commands read.
S1 == [id |-> "srv-a", host |-> "10.0.0.5", portal_port |-> 8080]
S2 == [id |-> "srv-b", host |-> "10.0.0.6", portal_port |-> 9090]
NoServer == [id |-> "", host |-> "", portal_port |-> 0]

\* AppConfig::load (config.rs 70-84): Err, or Ok with one of these `servers` lists.
ServerLists == {<< >>, <<S1>>, <<S1, S2>>}
ServerIds == {"srv-a", "srv-b"}

\* AppConfig::get_server (config.rs 112-114): the first server with that id.
get_server(servers, id) ==
    LET hits == {i \in DOMAIN servers : servers[i].id = id} IN
    IF hits = {} THEN NoServer
    ELSE servers[CHOOSE i \in hits : \A j \in hits : i <= j]

\* format!("http://{}:{}", server.host, server.portal_port)
PortalUrl(srv) == <<"http://", srv.host, ":", srv.portal_port>>

\* One line of `docker compose ps --format json` output: it parses as JSON or not,
\* and each of Name / Status / State is a string, a non-string value, or absent.
Absent == [kind |-> "absent", str |-> ""]
Number == [kind |-> "number", str |-> ""]
Str(x) == [kind |-> "string", str |-> x]
JsonLine(n, st, state) == [json |-> TRUE, Name |-> n, Status |-> st, State |-> state]
Lines ==
    { JsonLine(Str("ai-portal"), Str("Up 2 hours"), Str("running")),
      JsonLine(Str("ai-portal"), Str("Exited (1)"), Str("exited")),
      JsonLine(Str("db"), Str("Up 2 hours"), Str("running")),
      JsonLine(Str("db"), Str("Up 2 hours"), Absent),
      JsonLine(Str("ai-portal"), Str("Up 2 hours"), Number),
      [json |-> FALSE, Name |-> Absent, Status |-> Absent, State |-> Absent] }

Outputs == UNION {[1..n -> Lines] : n \in 0..MaxLines}

ParseContainers_stateOptional(lines) ==
    LET keep == SelectSeq(lines, LAMBDA l : l.json /\ l.Name.kind = "string"
                                                  /\ l.Status.kind = "string") IN
    [i \in 1..Len(keep) |->
        [name |-> keep[i].Name.str, status |-> keep[i].Status.str, state |-> keep[i].State.str]]

\* check_containers, ssh.rs 92-109: the entries of the lines that parse and carry
\* the three string fields, in the order of the lines.
RECURSIVE ParseContainers(_)
ParseContainers(lines) ==
    IF lines = << >> THEN << >>
    ELSE LET line == Head(lines) IN
         IF /\ line.json
            /\ line.Name.kind = "string"
            /\ line.Status.kind = "string"
            /\ line.State.kind = "string"
         THEN <<[name |-> line.Name.str, status |-> line.Status.str, state |-> line.State.str]>>
                  \o ParseContainers(Tail(lines))
         ELSE ParseContainers(Tail(lines))

portal_running_all(cs) ==
    \A i \in DOMAIN cs : cs[i].name = "ai-portal" /\ cs[i].state = "running"

\* launch_portal, commands.rs 32-33.
portal_running(cs) ==
    \E i \in DOMAIN cs : cs[i].name = "ai-portal" /\ cs[i].state = "running"

\* What the remote `curl -w '%{http_code}' ... || echo '000'` can print.
HealthOutputs == {"200", "200\n", "503", "000000\n"}

\* str::trim on those outputs.
Trim(out) ==
    CASE out = "200\n"    -> "200"
      [] out = "000000\n" -> "000000"
      [] OTHER            -> out

\* check_portal_health, ssh.rs 152-162, on the outcome of execute_command:
\* "Err", or Ok(status_code == "200").
check_portal_health(exec) ==
    IF exec = "Err" THEN "Err"
    ELSE IF Trim(exec) = "200" THEN "Ok(true)" ELSE "Ok(false)"

ProbeOutcomes == {check_portal_health(e) : e \in HealthOutputs \cup {"Err"}}

loop_continues_le(w) == w <= max_wait

\* launch_portal, commands.rs 45: `while waited < max_wait`.
loop_continues(w) == w < max_wait

Ok(kind, value) == [ok |-> TRUE, kind |-> kind, value |-> value]
Err(kind, value) == [ok |-> FALSE, kind |-> kind, value |-> value]
NoResult == [ok |-> FALSE, kind |-> "none", value |-> 0]

StatusInfo(connected, cs, url, portal_ready) ==
    [connected |-> connected, containers |-> cs, portal_url |-> url, portal_ready |-> portal_ready]

unreachable_status_err == Err("Connect", 0)

\* get_status, commands.rs 92-99: the answer when connect fails.
unreachable_status == Ok("StatusInfo", StatusInfo(FALSE, << >>, << >>, FALSE))

PortalInit ==
    /\ cmd = "none"
    /\ ppc = "idle"
    /\ server = NoServer
    /\ session = "none"
    /\ containers = << >>
    /\ waited = 0
    /\ ready = FALSE
    /\ slept = 0
    /\ starts = 0
    /\ probes = 0
    /\ failed = 0
    /\ cmds = {}
    /\ inspected = "none"
    /\ output = << >>
    /\ started = "none"
    /\ health = "none"
    /\ result = NoResult

Finish_leaks(r) ==
    /\ result' = r
    /\ ppc' = "done"
    /\ session' = IF session = "open" /\ r.ok THEN "closed" ELSE session

\* The command returns r; its SshConnection, if any, goes out of scope (Drop,
\* ssh.rs 166-170).
Finish(r) ==
    /\ result' = r
    /\ ppc' = "done"
    /\ session' = IF session = "open" THEN "closed" ELSE session

\* The frontend invokes launch_portal or get_status (lib.rs 127-136):
\* AppConfig::load and get_server, commands.rs 19-23 / 84-88.
Invoke ==
    /\ ppc \in {"idle", "done"}
    /\ \E c \in {"launch_portal", "get_status"} :
         /\ cmd' = c
         /\ \/ /\ server' = NoServer
               /\ ppc' = "done"
               /\ result' = Err("LoadConfig", 0)
            \/ \E servers \in ServerLists : \E id \in ServerIds :
                 /\ server' = get_server(servers, id)
                 /\ IF get_server(servers, id) = NoServer
                    THEN /\ ppc' = "done"
                         /\ result' = Err("ServerNotFound", id)
                    ELSE /\ ppc' = "connect"
                         /\ result' = NoResult
    /\ session' = "none"
    /\ containers' = << >>
    /\ waited' = 0
    /\ ready' = FALSE
    /\ slept' = 0
    /\ starts' = 0
    /\ probes' = 0
    /\ failed' = 0
    /\ cmds' = {}
    /\ inspected' = "none"
    /\ output' = << >>
    /\ started' = "none"
    /\ health' = "none"
    /\ UNCHANGED procVars

\* The frontend invokes test_connection with a ServerConfig (commands.rs 132-133).
InvokeTest ==
    /\ ppc \in {"idle", "done"}
    /\ cmd' = "test_connection"
    /\ \E srv \in {S1, S2} : server' = srv
    /\ ppc' = "connect"
    /\ result' = NoResult
    /\ session' = "none"
    /\ containers' = << >>
    /\ waited' = 0
    /\ ready' = FALSE
    /\ slept' = 0
    /\ starts' = 0
    /\ probes' = 0
    /\ failed' = 0
    /\ cmds' = {}
    /\ inspected' = "none"
    /\ output' = << >>
    /\ started' = "none"
    /\ health' = "none"
    /\ UNCHANGED procVars

\* SshConnection::connect (ssh.rs 24-60) as each command uses it: launch_portal
\* (commands.rs 25-26) and test_connection (133-134) return the error, get_status
\* (90-100) answers with the disconnected status.
connect ==
    /\ ppc = "connect"
    /\ \/ /\ session' = "open"
          /\ ppc' = IF cmd = "test_connection" THEN "echo" ELSE "inspect"
          /\ UNCHANGED result
       \/ /\ session' = "failed"
          /\ ppc' = "done"
          /\ result' = IF cmd = "get_status" THEN unreachable_status ELSE Err("Connect", 0)
    /\ UNCHANGED <<cmd, server, containers, waited, ready, slept, starts, probes, failed, cmds>>
    /\ UNCHANGED <<inspected, output, started, health>>
    /\ UNCHANGED procVars

launch_portal_inspect_defaults ==
    /\ cmd = "launch_portal"
    /\ ppc = "inspect"
    /\ cmds' = cmds \cup {"ps"}
    /\ \/ /\ inspected' = "Err"
          /\ containers' = << >>
          /\ ppc' = "start"
          /\ UNCHANGED <<output, result, session>>
       \/ \E out \in Outputs :
            /\ inspected' = "Ok"
            /\ output' = out
            /\ containers' = ParseContainers(out)
            /\ IF portal_running(ParseContainers(out))
               THEN Finish(Ok("Url", PortalUrl(server)))
               ELSE /\ ppc' = "start"
                    /\ UNCHANGED <<result, session>>
    /\ UNCHANGED <<cmd, server, waited, ready, slept, starts, probes, failed, started, health>>
    /\ UNCHANGED procVars

\* launch_portal, commands.rs 29-36 and 64-65: check_containers, portal_running,
\* and the return of the URL when the portal is running.
launch_portal_inspect ==
    /\ cmd = "launch_portal"
    /\ ppc = "inspect"
    /\ cmds' = cmds \cup {"ps"}
    /\ \/ /\ inspected' = "Err"
          /\ Finish(Err("CheckContainers", 0))
          /\ UNCHANGED <<containers, output>>
       \/ \E out \in Outputs :
            /\ inspected' = "Ok"
            /\ output' = out
            /\ containers' = ParseContainers(out)
            /\ IF portal_running(ParseContainers(out))
               THEN Finish(Ok("Url", PortalUrl(server)))
               ELSE /\ ppc' = "start"
                    /\ UNCHANGED <<result, session>>
    /\ UNCHANGED <<cmd, server, waited, ready, slept, starts, probes, failed, started, health>>
    /\ UNCHANGED procVars

launch_portal_start_ignores_failure ==
    /\ cmd = "launch_portal"
    /\ ppc = "start"
    /\ cmds' = cmds \cup {"up"}
    /\ starts' = starts + 1
    /\ started' \in {"Ok", "Err"}
    /\ waited' = 0
    /\ ready' = FALSE
    /\ ppc' = "loop"
    /\ UNCHANGED <<result, session>>
    /\ UNCHANGED <<cmd, server, containers, slept, probes, failed, inspected, output, health>>
    /\ UNCHANGED procVars

\* launch_portal, commands.rs 37-43: start_portal, then the loop's variables.
launch_portal_start ==
    /\ cmd = "launch_portal"
    /\ ppc = "start"
    /\ cmds' = cmds \cup {"up"}
    /\ starts' = starts + 1
    /\ \/ /\ started' = "Err"
          /\ Finish(Err("StartFailed", 0))
          /\ UNCHANGED <<waited, ready>>
       \/ /\ started' = "Ok"
          /\ waited' = 0
          /\ ready' = FALSE
          /\ ppc' = "loop"
          /\ UNCHANGED <<result, session>>
    /\ UNCHANGED <<cmd, server, containers, slept, probes, failed, inspected, output, health>>
    /\ UNCHANGED procVars

launch_portal_sleep_after_first_probe ==
    /\ cmd = "launch_portal"
    /\ ppc = "loop"
    /\ loop_continues(waited)
    /\ slept' = IF probes = 0 THEN slept ELSE slept + sleep_secs
    /\ waited' = waited + waited_step
    /\ ppc' = "probe"
    /\ UNCHANGED <<cmd, server, session, containers, ready, starts, probes, failed, cmds, result>>
    /\ UNCHANGED <<inspected, output, started, health>>
    /\ UNCHANGED procVars

\* launch_portal, commands.rs 45-47: the loop test, the sleep and `waited += 2`.
launch_portal_sleep ==
    /\ cmd = "launch_portal"
    /\ ppc = "loop"
    /\ loop_continues(waited)
    /\ slept' = slept + sleep_secs
    /\ waited' = waited + waited_step
    /\ ppc' = "probe"
    /\ UNCHANGED <<cmd, server, session, containers, ready, starts, probes, failed, cmds, result>>
    /\ UNCHANGED <<inspected, output, started, health>>
    /\ UNCHANGED procVars

launch_portal_probe_propagates ==
    /\ cmd = "launch_portal"
    /\ ppc = "probe"
    /\ cmds' = cmds \cup {"curl"}
    /\ probes' = probes + 1
    /\ \E h \in ProbeOutcomes :
         /\ health' = h
         /\ CASE h = "Ok(true)" ->
                   /\ ready' = TRUE
                   /\ ppc' = "after"
                   /\ UNCHANGED <<failed, result, session>>
              [] h = "Ok(false)" ->
                   /\ failed' = failed + 1
                   /\ ppc' = "loop"
                   /\ UNCHANGED <<ready, result, session>>
              [] h = "Err" ->
                   /\ failed' = failed + 1
                   /\ Finish(Err("HealthCheck", 0))
                   /\ UNCHANGED ready
    /\ UNCHANGED <<cmd, server, containers, waited, slept, starts, inspected, output, started>>
    /\ UNCHANGED procVars

\* launch_portal, commands.rs 49-57: the health probe and what the loop does with it.
launch_portal_probe ==
    /\ cmd = "launch_portal"
    /\ ppc = "probe"
    /\ cmds' = cmds \cup {"curl"}
    /\ probes' = probes + 1
    /\ \E h \in ProbeOutcomes :
         /\ health' = h
         /\ CASE h = "Ok(true)" ->
                   /\ ready' = TRUE
                   /\ ppc' = "after"
                   /\ UNCHANGED failed
              [] h = "Ok(false)" ->
                   /\ failed' = failed + 1
                   /\ ppc' = "loop"
                   /\ UNCHANGED ready
              [] h = "Err" ->
                   /\ failed' = failed + 1
                   /\ ppc' = "loop"
                   /\ UNCHANGED ready
    /\ UNCHANGED <<cmd, server, session, containers, waited, slept, starts, result, inspected,
                   output, started>>
    /\ UNCHANGED procVars

launch_portal_loop_ends_when_ready ==
    /\ cmd = "launch_portal"
    /\ ppc = "loop"
    /\ ~loop_continues(waited)
    /\ ready
    /\ ppc' = "after"
    /\ UNCHANGED <<cmd, server, session, containers, waited, ready, slept, starts, probes,
                   failed, cmds, result>>
    /\ UNCHANGED <<inspected, output, started, health>>
    /\ UNCHANGED procVars

\* launch_portal, commands.rs 45 and 58: the loop test fails.
launch_portal_loop_ends ==
    /\ cmd = "launch_portal"
    /\ ppc = "loop"
    /\ ~loop_continues(waited)
    /\ ppc' = "after"
    /\ UNCHANGED <<cmd, server, session, containers, waited, ready, slept, starts, probes,
                   failed, cmds, result>>
    /\ UNCHANGED <<inspected, output, started, health>>
    /\ UNCHANGED procVars

launch_portal_return_always_url ==
    /\ cmd = "launch_portal"
    /\ ppc = "after"
    /\ Finish(Ok("Url", PortalUrl(server)))
    /\ UNCHANGED <<cmd, server, containers, waited, ready, slept, starts, probes, failed, cmds>>
    /\ UNCHANGED <<inspected, output, started, health>>
    /\ UNCHANGED procVars

\* launch_portal, commands.rs 59-65: timed out, or the URL.
launch_portal_return ==
    /\ cmd = "launch_portal"
    /\ ppc = "after"
    /\ IF ~ready
       THEN Finish(Err("TimedOut", max_wait))
       ELSE Finish(Ok("Url", PortalUrl(server)))
    /\ UNCHANGED <<cmd, server, containers, waited, ready, slept, starts, probes, failed, cmds>>
    /\ UNCHANGED <<inspected, output, started, health>>
    /\ UNCHANGED procVars

get_status_inspect_starts ==
    /\ cmd = "get_status"
    /\ ppc = "inspect"
    /\ \E out \in Outputs :
         /\ inspected' = "Ok"
         /\ output' = out
         /\ containers' = ParseContainers(out)
         /\ cmds' = IF portal_running(ParseContainers(out))
                    THEN cmds \cup {"ps"} ELSE cmds \cup {"ps", "up"}
         /\ starts' = IF portal_running(ParseContainers(out)) THEN starts ELSE starts + 1
    /\ ppc' = "health"
    /\ UNCHANGED <<cmd, server, session, waited, ready, slept, probes, failed, result,
                   started, health>>
    /\ UNCHANGED procVars

\* get_status, commands.rs 102-103: check_containers().unwrap_or_default().
get_status_inspect ==
    /\ cmd = "get_status"
    /\ ppc = "inspect"
    /\ cmds' = cmds \cup {"ps"}
    /\ \/ /\ inspected' = "Err"
          /\ containers' = << >>
          /\ UNCHANGED output
       \/ \E out \in Outputs :
            /\ inspected' = "Ok"
            /\ output' = out
            /\ containers' = ParseContainers(out)
    /\ ppc' = "health"
    /\ UNCHANGED <<cmd, server, session, waited, ready, slept, starts, probes, failed, result,
                   started, health>>
    /\ UNCHANGED procVars

get_status_health_propagates ==
    /\ cmd = "get_status"
    /\ ppc = "health"
    /\ cmds' = cmds \cup {"curl"}
    /\ probes' = probes + 1
    /\ \E h \in ProbeOutcomes :
         /\ health' = h
         /\ failed' = IF h = "Ok(true)" THEN failed ELSE failed + 1
         /\ IF h = "Err" \/ inspected = "Err"
            THEN Finish(Err("CommandFailed", 0))
            ELSE Finish(Ok("StatusInfo",
                           StatusInfo(TRUE, containers, <<PortalUrl(server)>>, h = "Ok(true)")))
    /\ UNCHANGED <<cmd, server, containers, waited, ready, slept, starts, inspected, output,
                   started>>
    /\ UNCHANGED procVars

\* get_status, commands.rs 105-115: check_portal_health().unwrap_or(false) and the
\* StatusInfo returned.
get_status_health ==
    /\ cmd = "get_status"
    /\ ppc = "health"
    /\ cmds' = cmds \cup {"curl"}
    /\ probes' = probes + 1
    /\ \E h \in ProbeOutcomes :
         /\ health' = h
         /\ failed' = IF h = "Ok(true)" THEN failed ELSE failed + 1
         /\ Finish(Ok("StatusInfo",
                      StatusInfo(TRUE, containers, <<PortalUrl(server)>>, h = "Ok(true)")))
    /\ UNCHANGED <<cmd, server, containers, waited, ready, slept, starts, inspected, output,
                   started>>
    /\ UNCHANGED procVars

\* test_connection, commands.rs 136-140: one echo command.
test_connection_echo ==
    /\ cmd = "test_connection"
    /\ ppc = "echo"
    /\ cmds' = cmds \cup {"echo"}
    /\ \/ Finish(Err("CommandFailed", 0))
       \/ Finish(Ok("Output", "Connection successful\n"))
    /\ UNCHANGED <<cmd, server, containers, waited, ready, slept, starts, probes, failed>>
    /\ UNCHANGED <<inspected, output, started, health>>
    /\ UNCHANGED procVars

Init == ProcInit /\ PortalInit

NextPortal ==
    \/ Invoke
    \/ InvokeTest
    \/ connect
    \/ launch_portal_inspect
    \/ launch_portal_start
    \/ launch_portal_sleep
    \/ launch_portal_probe
    \/ launch_portal_loop_ends
    \/ launch_portal_return
    \/ get_status_inspect
    \/ get_status_health
    \/ test_connection_echo

SpecPortal == Init /\ [][NextPortal]_vars

\* launch_portal is one future that the runtime drives to completion: the sleep
\* (commands.rs 46) elapses, each remote command returns, and the steps between
\* them are taken.
PollingFairness ==
    /\ WF_vars(launch_portal_sleep)
    /\ WF_vars(launch_portal_probe)
    /\ WF_vars(launch_portal_loop_ends)
    /\ WF_vars(launch_portal_return)

SpecPortalLive == SpecPortal /\ PollingFairness

Next ==
    \/ \E t \in Threads : Blocks(t)
    \/ \E t \in Threads : launch_app(t)
    \/ \E t \in Threads : is_running(t)
    \/ \E t \in Threads : terminate(t)
    \/ \E t \in Threads : terminate_wait(t)
    \/ \E t \in Threads : Quit(t)
    \/ \E t \in Threads : cleanup_all(t)
    \/ \E t \in Threads : cleanup_kill(t)
    \/ \E t \in Threads : cleanup_wait(t)
    \/ \E t \in Threads : Exit(t)
    \/ \E p \in Pids : ChildExits(p)

Spec == Init /\ [][Next]_vars

\* ------------------------------------------------------------------ claims

LiveFor(a) == {p \in Pids : IsAlive(p) /\ procApp[p] = a}

\* C1: in every reachable state, for each app id at most one process spawned by
\* launch_app is alive.
C1_AtMostOneLivePerApp == \A a \in Apps : Cardinality(LiveFor(a)) <= 1

LaunchErrors == {"AlreadyRunning", "StatusCheckFailed", "SpawnError"}

TerminateErrors == {"TerminationError", "WaitError"}

\* C2: a launch_app or terminate call that returns an error leaves the registry
\* exactly as it was when the call began.
C2_FailedCallKeepsRegistry ==
    [][\A t \in Threads :
         /\ (ret'[t] \in LaunchErrors /\ launch_app(t)) => PROCESSES' = PROCESSES
         /\ (ret'[t] \in TerminateErrors /\ terminate(t)) => PROCESSES' = PROCESSES
         /\ (ret'[t] \in TerminateErrors /\ terminate_wait(t)) => PROCESSES' = before[t]
      ]_vars

\* C3: a launch_app of an id whose entry comes from an earlier successful
\* launch_app (no terminate or cleanup_all of the id in between) fails with the
\* already-running error, spawning nothing, while that process is alive; once the
\* process has exited it is never refused as already running, and when it
\* succeeds (the status check and the spawn went through) a new live process is
\* tracked in place of the exited one.
C3_RelaunchFollowsLiveness ==
    [][\A t \in Threads : \A a \in Apps :
         (ret'[t] # "none" /\ PROCESSES[a] # None /\ launch_app_id(t, a)) =>
            IF IsAlive(PROCESSES[a])
            THEN /\ ret'[t] = "AlreadyRunning"
                 /\ PROCESSES' = PROCESSES
                 /\ proc' = proc
            ELSE /\ ret'[t] \in {"Ok", "StatusCheckFailed", "SpawnError"}
                 /\ ret'[t] = "Ok" =>
                      /\ PROCESSES'[a] \notin {None, PROCESSES[a]}
                      /\ proc[PROCESSES'[a]] = "unborn"
                      /\ proc'[PROCESSES'[a]] = "alive"
                      /\ procApp'[PROCESSES'[a]] = a
      ]_vars

\* C3 witness: the second launch of an id succeeded after its first process had
\* exited, and tracks the new process.
C3_Witness ==
    \E t \in Threads : \E a \in Apps :
        /\ ret[t] = "Ok"
        /\ PROCESSES[a] = 2
        /\ proc[1] = "exited" /\ procApp[1] = a
        /\ proc[2] = "alive" /\ procApp[2] = a

\* The inspection found a container named "ai-portal" in state "running".
FoundRunning ==
    \E i \in DOMAIN containers :
        containers[i].name = "ai-portal" /\ containers[i].state = "running"

\* launch_portal has returned on the path: container not running, start command
\* succeeded, the health probe failed on the first 3 polls and then succeeded.
ThreeFailuresThenReady ==
    /\ cmd = "launch_portal"
    /\ ppc = "done"
    /\ ~FoundRunning
    /\ starts = 1
    /\ result.kind # "StartFailed"
    /\ failed = 3
    /\ probes = 4

\* C4 as stated: on that path launch_portal returns Ready after exactly 3 polling
\* intervals, 6 seconds of accumulated sleep.
C4_ReadyAfterThreeIntervals ==
    ThreeFailuresThenReady => (result.ok /\ slept = 6)

\* C4 amended: on that path launch_portal returns Ready (the URL) after exactly 4
\* polling intervals, 8 seconds of accumulated sleep, below the 120-second ceiling:
\* every probe, the successful one included, is preceded by a sleep.
C4_ReadyAfterFourIntervals ==
    ThreeFailuresThenReady =>
        /\ result = Ok("Url", PortalUrl(server))
        /\ slept = 8
        /\ slept < 120

\* C4 witness: launch_portal returned the URL on that path.
C4_Witness == ThreeFailuresThenReady /\ result.ok

\* C5: if the inspection finds a container named "ai-portal" in state "running",
\* launch_portal issues no start command, no sleep and no probe, and returns
\* successfully.
C5_RunningIsNotRestarted ==
    (cmd = "launch_portal" /\ FoundRunning) =>
        /\ starts = 0
        /\ "up" \notin cmds
        /\ slept = 0
        /\ probes = 0
        /\ ppc = "done"
        /\ result = Ok("Url", PortalUrl(server))

\* C5 witness: launch_portal returned for an inspection that lists the portal
\* running next to another container.
C5_Witness ==
    /\ cmd = "launch_portal"
    /\ ppc = "done"
    /\ FoundRunning
    /\ Len(containers) = 2
    /\ result.ok

\* launch_portal has returned on the path: container not running, start command
\* succeeded, every health probe failed.
EveryProbeFailed ==
    /\ cmd = "launch_portal"
    /\ ppc = "done"
    /\ ~FoundRunning
    /\ starts >= 1
    /\ result.kind # "StartFailed"
    /\ failed = probes

\* C6: on that path launch_portal returns the timed-out error, which states the
\* 120-second bound, only after the full 120 seconds of polling sleep, having
\* issued the start command exactly once.
C6_TimedOutAfterFullCeiling ==
    /\ EveryProbeFailed =>
          /\ result = Err("TimedOut", 120)
          /\ slept = 120
          /\ starts = 1
    /\ result.kind = "TimedOut" => (slept = 120 /\ starts = 1 /\ failed = probes)

\* C6 witness: launch_portal timed out after 60 failed probes.
C6_Witness == EveryProbeFailed /\ result.kind = "TimedOut" /\ probes = 60

\* C7: an is_running call never has to wait for a child process to exit: it is
\* never blocked behind a thread that sits in wait() on a live child.
C7_IsRunningNeverWaitsForChild ==
    \A t \in Threads :
        pc[t] = "is_running" =>
            ~(/\ lock # None
              /\ pc[lock] \in {"terminate_wait", "cleanup_wait"}
              /\ IsAlive(cur[lock]))

\* C8: after shutdown no process that launch_app had spawned before the shutdown
\* handler started is still alive.
C8_NoChildAliveAfterShutdown ==
    appExited => \A p \in Pids : p <= spawnedAtQuit => ~IsAlive(p)

\* C9: get_status never issues a start or stop command: the only remote commands
\* it executes are the container status query and the health probe.
C9_StatusNeverStarts ==
    cmd = "get_status" => (cmds \subseteq {"ps", "curl"} /\ starts = 0)

\* C9 witness: get_status returned after querying a service that is not running.
C9_Witness ==
    /\ cmd = "get_status"
    /\ ppc = "done"
    /\ session = "closed"
    /\ ~FoundRunning
    /\ result.kind = "StatusInfo"
    /\ ~result.value.portal_ready
    /\ cmds = {"ps", "curl"}

\* C10: when the connection cannot be established, get_status returns a successful
\* result with connected=false, an empty container list, no portal URL and
\* portal_ready=false.
C10_UnreachableIsReported ==
    (cmd = "get_status" /\ session = "failed") =>
        /\ ppc = "done"
        /\ result.ok
        /\ result.kind = "StatusInfo"
        /\ result.value.connected = FALSE
        /\ result.value.containers = << >>
        /\ result.value.portal_url = << >>
        /\ result.value.portal_ready = FALSE
        /\ cmds = {}

\* C10 witness: get_status returned for a configured server that refused the connection.
C10_Witness == cmd = "get_status" /\ session = "failed" /\ ppc = "done" /\ server = S2

\* C11: if the start command fails, launch_portal terminates with the start-failed
\* error: the start command was issued once, no sleep and no health probe follows,
\* and no URL is returned.
C11_StartFailureIsFatal ==
    (cmd = "launch_portal" /\ started = "Err") =>
        /\ ppc = "done"
        /\ result = Err("StartFailed", 0)
        /\ ~result.ok
        /\ starts = 1
        /\ slept = 0
        /\ probes = 0
        /\ "curl" \notin cmds

\* C11 witness: launch_portal returned after the inspection listed a stopped portal
\* and the start command failed.
C11_Witness ==
    /\ cmd = "launch_portal"
    /\ ppc = "done"
    /\ inspected = "Ok"
    /\ Len(containers) = 1
    /\ ~FoundRunning
    /\ started = "Err"

\* What is_running(a) can answer in the current state.
IsRunningAnswers(a) ==
    IF PROCESSES[a] # None
    THEN {IsRunningResult(PROCESSES[a], tw) : tw \in TryWait(PROCESSES[a])}
    ELSE {IsRunningResult(None, "Err")}

\* C12: when terminate returns for an app id that was tracked, with success or
\* with an error, an is_running call on that id at that moment answers false.
C12_TerminatedIsNotRunning ==
    [][\A t \in Threads : \A a \in Apps :
         (/\ ret'[t] # "none"
          /\ \/ PROCESSES[a] # None /\ terminate_id(t, a)
             \/ arg[t] = a /\ terminate_wait(t))
         => IsRunningAnswers(a)' = {FALSE}
      ]_vars

\* C12 witness: terminate returned the kill error for a tracked id whose process
\* is still alive, and is_running on that id answers false.
C12_Witness ==
    \E t \in Threads : \E p \in Pids :
        /\ ret[t] = "TerminationError"
        /\ proc[p] = "alive"
        /\ PROCESSES[procApp[p]] = None
        /\ IsRunningAnswers(procApp[p]) = {FALSE}

\* C13: terminate on an app id without a registry entry returns success, kills
\* nothing, keeps the registry and takes no lock beyond the call; the id is still
\* untracked afterwards, so every repetition does the same.
C13_TerminateUnknownIsNoOp ==
    [][\A t \in Threads : \A a \in Apps :
         (PROCESSES[a] = None /\ terminate_id(t, a)) =>
            /\ ret'[t] = "Ok"
            /\ PROCESSES' = PROCESSES
            /\ PROCESSES'[a] = None
            /\ proc' = proc
            /\ lock' = None
            /\ pc'[t] = "idle"
      ]_vars

\* C13 witness: terminate returned success although nothing was ever spawned.
C13_Witness == \E t \in Threads : ret[t] = "Ok" /\ spawned = 0 /\ PROCESSES = NoEntry

\* C14: when cleanup_all returns the registry is empty, whichever entries it found
\* (alive or already exited) and whatever kill and wait answered.
C14_CleanupLeavesRegistryEmpty ==
    [][\A t \in Threads :
         (pc[t] \in {"cleanup_all", "cleanup_wait"} /\ pc'[t] = "exit")
            => PROCESSES' = NoEntry
      ]_vars

\* C14 witness: cleanup_all returned after it had found both app ids tracked.
C14_Witness ==
    \E t \in Threads :
        /\ pc[t] = "exit"
        /\ \A a \in Apps : before[t][a] # None
        /\ PROCESSES = NoEntry

\* A line that is valid JSON and carries Name, Status and State as strings.
WellFormedLine(line) ==
    line.json /\ \A f \in {line.Name, line.Status, line.State} : f.kind = "string"

\* C15: whenever the status command came back, check_containers returns exactly
\* the entries of the well-formed lines of its output, in the order of the lines;
\* the other lines are skipped and do not make the call fail.
C15_ParsesWellFormedLinesInOrder ==
    inspected = "Ok" =>
        LET wf == SelectSeq(output, WellFormedLine) IN
        /\ Len(containers) = Len(wf)
        /\ \A i \in 1..Len(wf) :
              /\ containers[i].name = wf[i].Name.str
              /\ containers[i].status = wf[i].Status.str
              /\ containers[i].state = wf[i].State.str
        /\ result.kind # "CheckContainers"

\* C15 witness: the output held a line without a string State ahead of a
\* well-formed line, and the inspection returned the one entry.
C15_Witness ==
    /\ inspected = "Ok"
    /\ Len(output) = 2
    /\ ~WellFormedLine(output[1])
    /\ output[1].json
    /\ WellFormedLine(output[2])
    /\ Len(containers) = 1

\* C16: after a launch_app or is_running call has observed, through try_wait, that
\* the process tracked for an id has exited, the registry no longer holds the entry
\* of that exited process.
C16_ObservedExitIsReaped ==
    [][\A t \in Threads : \A a \in Apps :
         /\ (PROCESSES[a] # None /\ is_running_id(t, a, "Exited"))
               => PROCESSES'[a] # PROCESSES[a]
         /\ (PROCESSES[a] # None /\ ret'[t] \in {"Ok", "SpawnError"} /\ launch_app_id(t, a))
               => PROCESSES'[a] # PROCESSES[a]
      ]_vars

\* Some thread is between terminate's remove, or cleanup_all's drain, and the end
\* of its last wait().
InsideRemoveKillWait ==
    \E u \in Threads : pc[u] \in {"terminate_wait", "cleanup_kill", "cleanup_wait"}

\* C17: the check-then-act sequences run under the registry lock from their first
\* step to their last.  No launch_app, terminate or cleanup_all starts on the
\* registry, nothing is spawned and the registry does not change while a thread is
\* between its remove (or drain) and the end of its wait.  A launch_app call is one
\* indivisible check-spawn-insert: it spawns exactly one process when it succeeds
\* and none when it fails, and with the tracked process of its id alive (as for
\* the second of two concurrent calls for an untracked id) it fails as already
\* running.
C17_CheckThenActIsAtomic ==
    [][/\ InsideRemoveKillWait =>
            /\ PROCESSES' = PROCESSES
            /\ spawned' = spawned
            /\ \A t \in Threads : ~launch_app(t) /\ ~terminate(t) /\ ~cleanup_all(t)
       /\ \A t \in Threads : \A a \in Apps :
            launch_app_id(t, a) =>
               /\ spawned' = IF ret'[t] = "Ok" THEN spawned + 1 ELSE spawned
               /\ ret'[t] = "Ok" => (PROCESSES'[a] # None /\ proc'[PROCESSES'[a]] = "alive")
               /\ (PROCESSES[a] # None /\ IsAlive(PROCESSES[a])) => ret'[t] = "AlreadyRunning"
      ]_vars

\* C17 witness: a launch_app call for an id is blocked on the lock while a
\* terminate of the same id has removed the entry and waits for the killed process.
C17_Witness ==
    \E t, u \in Threads :
        /\ pc[t] = "terminate_wait"
        /\ IsAlive(cur[t])
        /\ pc[u] = "launch_app"
        /\ arg[u] = arg[t]
        /\ PROCESSES[arg[t]] = None
        /\ lock = t

\* A step that executes a remote command on the session.
Executes ==
    \/ launch_portal_inspect
    \/ launch_portal_start
    \/ launch_portal_probe
    \/ get_status_inspect
    \/ get_status_health
    \/ test_connection_echo

\* C18: when launch_portal, get_status or test_connection returns, on whichever
\* path, a session it had connected is disconnected; commands are executed only on
\* a connected session, never after its disconnect.
C18_SessionClosedOnEveryExit ==
    [][/\ ppc' = "done" => session' # "open"
       /\ (session = "open" /\ ppc' = "done") => session' = "closed"
       /\ Executes => session = "open"
       /\ session = "closed" => /\ cmds' \subseteq cmds
                                /\ probes' <= probes
                                /\ starts' <= starts
      ]_vars

\* C18 witness: test_connection returned the command error and its session,
\* which had connected, is disconnected.
C18_Witness ==
    /\ cmd = "test_connection"
    /\ ppc = "done"
    /\ result = Err("CommandFailed", 0)
    /\ cmds = {"echo"}
    /\ session = "closed"

\* C19: once the start command has succeeded, launch_portal's readiness wait ends
\* with Ready (the URL) or TimedOut; it issues at most 60 health probes and its
\* accumulated polling sleep never exceeds 120 seconds.
C19_ReadinessWaitTerminates ==
    /\ [](cmd = "launch_portal" => (probes <= 60 /\ slept <= 120 /\ waited <= max_wait))
    /\ (cmd = "launch_portal" /\ started = "Ok")
          ~> (ppc = "done" /\ result.kind \in {"Url", "TimedOut"})

\* C19 witness: the wait ended in Ready on the 60th probe, after 120 seconds of sleep.
C19_Witness ==
    /\ cmd = "launch_portal"
    /\ started = "Ok"
    /\ ppc = "done"
    /\ result.kind = "Url"
    /\ probes = 60
    /\ slept = 120

\* C20: in the poll loop a health probe that fails with an error has the effect of
\* a not-ready answer: the loop goes on to its next test and interval with nothing
\* returned; launch_portal can then only end in Ready after a later probe or in
\* TimedOut at the full ceiling, so the probe error never reaches the caller.
C20_ProbeErrorIsNotReady ==
    /\ [][(launch_portal_probe /\ health' \in {"Err", "Ok(false)"}) =>
              /\ ppc' = "loop"
              /\ result' = result
              /\ session' = session
              /\ ready' = ready
              /\ waited' = waited
              /\ failed' = failed + 1
         ]_vars
    /\ []((cmd = "launch_portal" /\ health = "Err") =>
              /\ ppc \in {"loop", "probe", "after", "done"}
              /\ ppc = "after" => waited = max_wait
              /\ ppc = "done" => (result = Err("TimedOut", max_wait) /\ slept = 120))

\* C20 witness: the first probe failed with an error and the loop has slept its
\* second interval.
C20_Witness ==
    /\ cmd = "launch_portal"
    /\ health = "Err"
    /\ ppc = "probe"
    /\ probes = 1
    /\ slept = 4
    /\ result = NoResult

\* C21: outside the poll loop the errors of the session and of the inspection
\* reach the caller: when the connection fails launch_portal returns the connect
\* error with no command executed, and when the container inspection command
\* fails it returns the inspection error with no start command, no sleep and no
\* health probe.
C21_InspectionErrorPropagates ==
    /\ (cmd = "launch_portal" /\ session = "failed") =>
          /\ ppc = "done"
          /\ result = Err("Connect", 0)
          /\ cmds = {}
    /\ (cmd = "launch_portal" /\ inspected = "Err") =>
          /\ ppc = "done"
          /\ result = Err("CheckContainers", 0)
          /\ ~result.ok
          /\ starts = 0
          /\ started = "none"
          /\ slept = 0
          /\ probes = 0
          /\ cmds = {"ps"}

\* C21 witness: launch_portal returned after its inspection command failed on a
\* connected session.
C21_Witness ==
    /\ cmd = "launch_portal"
    /\ ppc = "done"
    /\ inspected = "Err"
    /\ session = "closed"
    /\ server = S1

\* C22: launch_portal returns a URL only if the inspection found a container named
\* "ai-portal" in state "running", or the start command succeeded and the latest
\* health probe answered HTTP 200; after a failed start, or when the poll loop ran
\* out with its last probe unsuccessful, it returns an error and no URL.
C22_UrlOnlyWhenRunningOrHealthy ==
    cmd = "launch_portal" =>
        /\ result.ok =>
              /\ ppc = "done"
              /\ result = Ok("Url", PortalUrl(server))
              /\ \/ inspected = "Ok" /\ FoundRunning /\ started = "none"
                 \/ started = "Ok" /\ health = "Ok(true)"
        /\ started = "Err" => (ppc = "done" /\ ~result.ok)
        /\ (ppc = "done" /\ started = "Ok" /\ health # "Ok(true)") =>
              (result = Err("TimedOut", max_wait) /\ ~loop_continues(waited))

\* C22 witness: the URL was returned for a portal that was not running, after a
\* successful start and two failed probes followed by a probe answering 200.
C22_Witness ==
    /\ cmd = "launch_portal"
    /\ ppc = "done"
    /\ result = Ok("Url", PortalUrl(server))
    /\ ~FoundRunning
    /\ started = "Ok"
    /\ health = "Ok(true)"
    /\ failed = 2

\* C23: once get_status has connected it always returns a successful StatusInfo
\* with connected=true and the portal URL.  A failed container query shows as an
\* empty container list and a failed health probe as portal_ready=false, never as
\* an error; the health probe is issued whether or not the container query
\* failed, and each field reports its own command only.
C23_ConnectedStatusAlwaysSucceeds ==
    (cmd = "get_status" /\ session \in {"open", "closed"}) =>
        /\ ppc \in {"inspect", "health", "done"}
        /\ ppc = "done" =>
              /\ session = "closed"
              /\ result.ok
              /\ result.kind = "StatusInfo"
              /\ result.value.connected = TRUE
              /\ result.value.portal_url = <<PortalUrl(server)>>
              /\ result.value.containers =
                    IF inspected = "Err" THEN << >> ELSE ParseContainers(output)
              /\ result.value.portal_ready = (health = "Ok(true)")
              /\ inspected \in {"Ok", "Err"}
              /\ health \in ProbeOutcomes
              /\ probes = 1
              /\ cmds = {"ps", "curl"}

\* C23 witness: get_status returned for a session whose container query failed
\* and whose health probe answered 200.
C23_Witness ==
    /\ cmd = "get_status"
    /\ ppc = "done"
    /\ session = "closed"
    /\ inspected = "Err"
    /\ health = "Ok(true)"
    /\ result.ok

====
